---------------------------- MODULE Spec2Model ----------------------------
(***************************************************************************)
(* Model of tools/cmake/cifuzz/src/dumper.c: the hooks that call the       *)
(* registered death callback on non-fatal sanitizer findings.              *)
(*                                                                         *)
(* C strings are TLA+ strings; a character is a string of length one and   *)
(* the terminating NUL is the empty string.  A char pointer that may be    *)
(* NULL (the result of getenv) is <<>> for NULL and <<s>> for a pointer to *)
(* the string s.  A function pointer is the name of the function, or       *)
(* NULLFN.                                                                 *)
(***************************************************************************)
EXTENDS Integers, Sequences, FiniteSets, TLC

VARIABLES
    strategy,                  \* "dlsym" (#ifdef __APPLE__) or "wrap" (#else)
    sanitizer_death_callback,  \* dumper.c:16, the registry slot
    real_death_callback,       \* the callback held by the sanitizer runtime
    environ,                   \* the process environment read by getenv
    registrations,             \* history: the callbacks registered so far
    alive,                     \* FALSE once the process has faulted
    last,                      \* history: what the latest step did, when it
                               \* handled a report (NoReport otherwise)
    prev,                      \* history: the report handled before the
                               \* latest change of the environment
    handler,                   \* a report handler running step by step
                               \* beside the registration entry point
    wrapper                    \* the process of process_wrapper.c

vars == <<strategy, sanitizer_death_callback, real_death_callback, environ,
          registrations, alive, last, prev, handler, wrapper>>

\* What the entry points of dumper.c, taken one whole call at a time, leave
\* alone.
aside == <<prev, handler, wrapper>>

---------------------------------------------------------------------------
(* Bounds and input sets *)

MaxRegistrations == 2

NULLFN == "NULL"
Callbacks == {"cbA", "cbB"}

NULL == <<>>
Ptr(s) == <<s>>
Deref(p) == p[1]

UBSAN_SUMMARY_PREFIX == "SUMMARY: UndefinedBehaviorSanitizer:"
ASAN_SUMMARY_PREFIX == "SUMMARY: AddressSanitizer:"

Summaries ==
    { "SUMMARY: AddressSanitizer: heap-buffer-overflow t.c:3 in f",
      "SUMMARY: AddressSanitizer: 7 byte(s) leaked in 1 allocation(s).",
      "SUMMARY: AddressSanitizer",
      "SUMMARY: UndefinedBehaviorSanitizer: undefined-behavior t.c:3:5",
      "SUMMARY: UndefinedBehaviorXYZ: other text",
      "SUMMARY: UndefinedBehavio",
      "SUMMARY: ThreadSanitizer: data race t.c:9 in g",
      "see SUMMARY: AddressSanitizer: stack-overflow" }

AsanOptionValues ==
    { NULL, Ptr(""), Ptr("halt_on_error=0"),
      Ptr("verbosity=1:halt_on_error=no"), Ptr("halt_on_error=false"),
      Ptr("detect_leaks=0:halt_on_error=1") }

UbsanOptionValues ==
    { NULL, Ptr(""), Ptr("halt_on_error=1"),
      Ptr("print_stacktrace=1:halt_on_error=yes"), Ptr("halt_on_error=true"),
      Ptr("halt_on_error=0") }

(* strstr on a NULL haystack is undefined behaviour: the process faults, or
   the test of its result goes either way. *)
UndefinedOutcomes == {"fault", "true", "false"}

---------------------------------------------------------------------------
(* <string.h> and <stdlib.h> *)

NUL == ""

CharAt(s, i) == IF i <= Len(s) THEN SubSeq(s, i, i) ELSE NUL

strlen(s) == Len(s)

RECURSIVE strncmpFrom(_, _, _, _)
strncmpFrom(s1, s2, i, n) ==
    IF i > n THEN 0
    ELSE IF CharAt(s1, i) # CharAt(s2, i) THEN 1
    ELSE IF CharAt(s1, i) = NUL THEN 0
    ELSE strncmpFrom(s1, s2, i + 1, n)

\* 0 when the strings agree on their first n characters (or up to a NUL).
strncmp(s1, s2, n) == strncmpFrom(s1, s2, 1, n)

RECURSIVE strstrFrom(_, _, _)
strstrFrom(haystack, needle, i) ==
    IF i + Len(needle) - 1 > Len(haystack) THEN 0
    ELSE IF SubSeq(haystack, i, i + Len(needle) - 1) = needle THEN i
    ELSE strstrFrom(haystack, needle, i + 1)

\* Position of the first occurrence of needle in haystack, 0 for NULL.
strstr(haystack, needle) == strstrFrom(haystack, needle, 1)

\* Mutant: the value read for an earlier report is kept and used again.
getenv_cached(env, name) ==
    IF prev.summary # "" THEN prev.env[name] ELSE env[name]

getenv(env, name) == env[name]

---------------------------------------------------------------------------
(* sanitizer_death_callback_if_non_fatal_finding *)

call(f) == [op |-> "call", arg |-> f]
fault(what) == [op |-> "fault", arg |-> what]
forward(fn, text) == [op |-> fn, arg |-> text]

IsAsanSummary(error_summary) ==
    strncmp(ASAN_SUMMARY_PREFIX, error_summary, strlen(ASAN_SUMMARY_PREFIX)) = 0

IsUbsanSummary(error_summary) ==
    strncmp(UBSAN_SUMMARY_PREFIX, error_summary, strlen(ASAN_SUMMARY_PREFIX)) = 0

\* Mutant: the leak test left out.
IsLeakReportNever(error_summary) == FALSE

IsLeakReport(error_summary) == strstr(error_summary, "byte(s) leaked") # 0

\* Mutant: only the spelling halt_on_error=0 is recognised.
AsanNoHaltZeroOnly(options) == strstr(options, "halt_on_error=0") # 0

AsanNoHalt(options) ==
    \/ strstr(options, "halt_on_error=0") # 0
    \/ strstr(options, "halt_on_error=no") # 0
    \/ strstr(options, "halt_on_error=false") # 0

\* Mutant: the spelling halt_on_error=yes is not recognised.
UbsanNoHaltWithoutYes(options) ==
    /\ ~(strstr(options, "halt_on_error=1") # 0)
    /\ ~(strstr(options, "halt_on_error=true") # 0)

UbsanNoHalt(options) ==
    /\ ~(strstr(options, "halt_on_error=1") # 0)
    /\ ~(strstr(options, "halt_on_error=yes") # 0)
    /\ ~(strstr(options, "halt_on_error=true") # 0)

\* The outcomes of the if condition over strstr(options, ...): its truth
\* value, or any undefined outcome when options is NULL.
AsanCondition(options) ==
    IF options = NULL THEN UndefinedOutcomes
    ELSE IF AsanNoHalt(Deref(options)) THEN {"true"} ELSE {"false"}

UbsanCondition(options) ==
    IF options = NULL THEN UndefinedOutcomes
    ELSE IF UbsanNoHalt(Deref(options)) THEN {"true"} ELSE {"false"}

\* sanitizer_death_callback(): a call through a null pointer faults.
InvokeDeathCallback(cb) ==
    IF cb = NULLFN THEN <<fault("call through NULL")>> ELSE <<call(cb)>>

Faulted(trace) == \E i \in 1..Len(trace) : trace[i].op = "fault"

\* The events after an if condition with outcome c.
Branch(c, cb) ==
    CASE c = "fault" -> <<fault("strstr(NULL)")>>
      [] c = "true"  -> InvokeDeathCallback(cb)
      [] OTHER       -> <<>>

\* Mutant: the AddressSanitizer block reads the other family's variable.
AsanBlockOtherVariable(error_summary, env, cb) ==
    IF ~IsAsanSummary(error_summary) THEN {[trace |-> <<>>, returned |-> FALSE]}
    ELSE IF IsLeakReport(error_summary) THEN {[trace |-> <<>>, returned |-> TRUE]}
    ELSE {[trace |-> Branch(c, cb), returned |-> FALSE] :
              c \in AsanCondition(getenv(env, "UBSAN_OPTIONS"))}

\* Lines 32-57: the possible runs of the AddressSanitizer block, each with
\* its events and whether it returned from the function.
AsanBlock(error_summary, env, cb) ==
    IF ~IsAsanSummary(error_summary) THEN {[trace |-> <<>>, returned |-> FALSE]}
    ELSE IF IsLeakReport(error_summary) THEN {[trace |-> <<>>, returned |-> TRUE]}
    ELSE {[trace |-> Branch(c, cb), returned |-> FALSE] :
              c \in AsanCondition(getenv(env, "ASAN_OPTIONS"))}

\* Lines 59-74: the possible runs of the UndefinedBehaviorSanitizer block.
UbsanBlock(error_summary, env, cb) ==
    IF ~IsUbsanSummary(error_summary) THEN {<<>>}
    ELSE {Branch(c, cb) : c \in UbsanCondition(getenv(env, "UBSAN_OPTIONS"))}

\* The possible runs (event sequences) of one call of the dispatcher.
sanitizer_death_callback_if_non_fatal_finding(error_summary, env, cb) ==
    UNION { IF a.returned \/ Faulted(a.trace) THEN {a.trace}
            ELSE {a.trace \o u : u \in UbsanBlock(error_summary, env, cb)} :
            a \in AsanBlock(error_summary, env, cb) }

---------------------------------------------------------------------------
(* The hooks *)

\* __APPLE__: forward to the real function found by dlsym, then dispatch.
\* The report comes from the loaded sanitizer runtime, so the lookup of its
\* symbols succeeds.
sanitizer_report_error_summary_dlsym(error_summary, env, cb) ==
    { <<forward("real___sanitizer_report_error_summary", error_summary)>> \o t :
          t \in sanitizer_death_callback_if_non_fatal_finding(error_summary, env, cb) }

\* Mutant: the dispatcher runs before the text is printed.
sanitizer_report_error_summary_wrap_late(error_summary, env, cb) ==
    { t \o <<forward("__sanitizer::Printf", error_summary)>> :
          t \in IF cb = NULLFN THEN {<<>>}
                ELSE sanitizer_death_callback_if_non_fatal_finding(error_summary, env, cb) }

\* Linux: print, return if no callback is registered, else dispatch.
sanitizer_report_error_summary_wrap(error_summary, env, cb) ==
    { <<forward("__sanitizer::Printf", error_summary)>> \o t :
          t \in IF cb = NULLFN THEN {<<>>}
                ELSE sanitizer_death_callback_if_non_fatal_finding(error_summary, env, cb) }

\* Mutant: a registration does not replace a callback already stored.
StoreCallbackOnce(old, callback) == IF old = NULLFN THEN callback ELSE old

\* The value the registration stores in the slot.
StoreCallback(old, callback) == callback

\* Mutant: the callback is stored but not handed on.
ForwardNothing(callback) == NULLFN

\* The value the registration hands to the real registration function.
ForwardCallback(callback) == callback

NoReport == [entry |-> "none", summary |-> "", trace |-> <<>>]

\* No report was handled before the latest change of the environment.
NoPrev == [summary |-> "", trace |-> <<>>, env |-> <<>>]

\* No report handler is running step by step.
Idle == [pc |-> "idle", summary |-> "", trace |-> <<>>]

\* process_wrapper has not been started.
NotStarted == [pc |-> "none"]

\* The process starts with both option variables set and empty, no callback
\* registered; Setenv reaches every other environment before the first
\* report.
Init ==
    /\ strategy \in {"dlsym", "wrap"}
    /\ sanitizer_death_callback = NULLFN
    /\ real_death_callback = NULLFN
    /\ environ = [ASAN_OPTIONS |-> Ptr(""), UBSAN_OPTIONS |-> Ptr("")]
    /\ registrations = <<>>
    /\ alive = TRUE
    /\ last = NoReport
    /\ prev = NoPrev
    /\ handler = Idle
    /\ wrapper = NotStarted

\* __sanitizer_set_death_callback / __wrap___sanitizer_set_death_callback
sanitizer_set_death_callback(callback) ==
    /\ alive
    /\ Len(registrations) < MaxRegistrations
    /\ sanitizer_death_callback' = StoreCallback(sanitizer_death_callback, callback)
    /\ real_death_callback' = ForwardCallback(callback)
    /\ registrations' = Append(registrations, callback)
    /\ last' = NoReport
    /\ UNCHANGED <<strategy, environ, alive, aside>>

\* Mutant: the slot is cleared once the callback was invoked.
HandleClearing(entry, error_summary, trace) ==
    /\ last' = [entry |-> entry, summary |-> error_summary, trace |-> trace]
    /\ alive' = ~Faulted(trace)
    /\ sanitizer_death_callback' =
           IF \E i \in 1..Len(trace) : trace[i].op = "call" THEN NULLFN
           ELSE sanitizer_death_callback
    /\ UNCHANGED <<strategy, real_death_callback, environ, registrations, aside>>

Handle(entry, error_summary, trace) ==
    /\ last' = [entry |-> entry, summary |-> error_summary, trace |-> trace]
    /\ alive' = ~Faulted(trace)
    /\ UNCHANGED <<strategy, sanitizer_death_callback, real_death_callback,
                   environ, registrations, aside>>

\* __sanitizer_report_error_summary, called by the sanitizer runtime.
sanitizer_report_error_summary(error_summary) ==
    /\ alive
    /\ \E trace \in IF strategy = "dlsym"
                    THEN sanitizer_report_error_summary_dlsym(error_summary, environ,
                                                 sanitizer_death_callback)
                    ELSE sanitizer_report_error_summary_wrap(error_summary, environ,
                                                sanitizer_death_callback) :
           Handle("hook", error_summary, trace)

\* sanitizer_death_callback_if_non_fatal_finding has external linkage and
\* can be entered directly.
direct_call(error_summary) ==
    /\ alive
    /\ \E trace \in sanitizer_death_callback_if_non_fatal_finding(error_summary, environ,
                                                   sanitizer_death_callback) :
           Handle("direct", error_summary, trace)

\* The host changes an option variable (setenv / unsetenv).
Setenv(name, value) ==
    /\ alive
    /\ environ[name] # value
    /\ environ' = [environ EXCEPT ![name] = value]
    /\ last' = NoReport
    /\ UNCHANGED <<strategy, sanitizer_death_callback, real_death_callback,
                   registrations, alive, aside>>

Next ==
    \/ \E callback \in Callbacks \cup {NULLFN} : sanitizer_set_death_callback(callback)
    \/ \E s \in Summaries : sanitizer_report_error_summary(s)
    \/ \E s \in Summaries : direct_call(s)
    \/ \E value \in AsanOptionValues : Setenv("ASAN_OPTIONS", value)
    \/ \E value \in UbsanOptionValues : Setenv("UBSAN_OPTIONS", value)

Spec == Init /\ [][Next]_vars

---------------------------------------------------------------------------
(* The link-time wrapping hook taken statement by statement, on one thread,
   while registrations run on another.  The slot is a plain variable: a read
   returns the value of the latest write.  The dispatcher reads the slot
   once, at the call (dumper.c:55 or :72), after getenv. *)

RaceSummaries ==
    { "SUMMARY: AddressSanitizer: heap-buffer-overflow t.c:3 in f",
      "SUMMARY: AddressSanitizer: 7 byte(s) leaked in 1 allocation(s).",
      "SUMMARY: UndefinedBehaviorSanitizer: undefined-behavior t.c:3:5",
      "SUMMARY: ThreadSanitizer: data race t.c:9 in g" }

RaceEnvironments ==
    [ASAN_OPTIONS : {Ptr(""), Ptr("halt_on_error=0")},
     UBSAN_OPTIONS : {Ptr(""), Ptr("halt_on_error=1")}]

InitRace ==
    /\ strategy = "wrap"
    /\ sanitizer_death_callback = NULLFN
    /\ real_death_callback = NULLFN
    /\ environ \in RaceEnvironments
    /\ registrations = <<>>
    /\ alive = TRUE
    /\ last = NoReport
    /\ prev = NoPrev
    /\ handler = Idle
    /\ wrapper = NotStarted

RaceFrame ==
    UNCHANGED <<strategy, sanitizer_death_callback, real_death_callback,
                environ, registrations, last, prev, wrapper>>

\* dumper.c:141
report_printf(error_summary) ==
    /\ alive
    /\ handler.pc = "idle"
    /\ handler' = [pc |-> "check", summary |-> error_summary,
                   trace |-> <<forward("__sanitizer::Printf", error_summary)>>]
    /\ UNCHANGED alive
    /\ RaceFrame

\* dumper.c:142-144
report_check ==
    /\ alive
    /\ handler.pc = "check"
    /\ handler' = [handler EXCEPT !.pc = IF sanitizer_death_callback = NULLFN
                                        THEN "idle" ELSE "dispatch"]
    /\ UNCHANGED alive
    /\ RaceFrame

\* dumper.c:146
report_dispatch ==
    /\ alive
    /\ handler.pc = "dispatch"
    /\ \E t \in sanitizer_death_callback_if_non_fatal_finding(
                    handler.summary, environ, sanitizer_death_callback) :
           /\ handler' = [handler EXCEPT !.pc = "idle", !.trace = @ \o t]
           /\ alive' = ~Faulted(t)
    /\ RaceFrame

NextRace ==
    \/ \E callback \in Callbacks \cup {NULLFN} : sanitizer_set_death_callback(callback)
    \/ \E s \in RaceSummaries : report_printf(s)
    \/ report_check
    \/ report_dispatch

SpecRace == InitRace /\ [][NextRace]_vars

---------------------------------------------------------------------------
(* Reports of one family before and after a change of the environment. *)

SeqSummaries ==
    { "SUMMARY: AddressSanitizer: heap-buffer-overflow t.c:3 in f",
      "SUMMARY: UndefinedBehaviorSanitizer: undefined-behavior t.c:3:5" }

SeqAsanOptionValues ==
    { Ptr("halt_on_error=0"), Ptr("halt_on_error=false"),
      Ptr("detect_leaks=0:halt_on_error=1") }

SeqUbsanOptionValues ==
    { Ptr(""), Ptr("halt_on_error=1"), Ptr("halt_on_error=true") }

InitSeq ==
    /\ strategy \in {"dlsym", "wrap"}
    /\ sanitizer_death_callback = NULLFN
    /\ real_death_callback = NULLFN
    /\ environ \in [ASAN_OPTIONS : SeqAsanOptionValues,
                    UBSAN_OPTIONS : SeqUbsanOptionValues]
    /\ registrations = <<>>
    /\ alive = TRUE
    /\ last = NoReport
    /\ prev = NoPrev
    /\ handler = Idle
    /\ wrapper = NotStarted

\* The host changes an option variable after a report was handled; prev
\* keeps that report and the environment it was handled under.
SetenvAfterReport(name, value) ==
    /\ alive
    /\ last.entry # "none"
    /\ environ[name] # value
    /\ environ' = [environ EXCEPT ![name] = value]
    /\ prev' = [summary |-> last.summary, trace |-> last.trace, env |-> environ]
    /\ last' = NoReport
    /\ UNCHANGED <<strategy, sanitizer_death_callback, real_death_callback,
                   registrations, alive, handler, wrapper>>

NextSeq ==
    \/ \E callback \in Callbacks \cup {NULLFN} : sanitizer_set_death_callback(callback)
    \/ \E s \in SeqSummaries : sanitizer_report_error_summary(s)
    \/ \E value \in SeqAsanOptionValues : SetenvAfterReport("ASAN_OPTIONS", value)
    \/ \E value \in SeqUbsanOptionValues : SetenvAfterReport("UBSAN_OPTIONS", value)

SpecSeq == InitSeq /\ [][NextSeq]_vars

---------------------------------------------------------------------------
(* pkg/minijail/process_wrapper/src/process_wrapper.c.  argv is a TLA+
   sequence, so the C element argv[i] is Arg(argv, i). *)

MaxArgc == 4

ArgStrings == {"/work", "/bin/tool", "-v"}

Argvs ==
    UNION { { <<"process_wrapper">> \o a : a \in [1..n -> ArgStrings] } :
            n \in 0..(MaxArgc - 1) }

Arg(argv, i) == argv[i + 1]

\* argv + k: the vector that starts at argv[k].
From(argv, k) == SubSeq(argv, k + 1, Len(argv))

InitialDirectory == "/"

chdir(path, result) == [call |-> "chdir", path |-> path, result |-> result]
execv(path, argv, result) ==
    [call |-> "execv", path |-> path, argv |-> argv, result |-> result]

Exited(argv, status, cwd, syscalls) ==
    [pc |-> "exited", argv |-> argv, status |-> status, cwd |-> cwd,
     syscalls |-> syscalls]

\* Mutant: the failure of chdir is reported but main goes on to execv.
main_goes_on_after_chdir(argc, argv, chdir_result, execv_result) ==
    IF argc < 3 THEN Exited(argv, 1, InitialDirectory, <<>>)
    ELSE LET cd == chdir(Arg(argv, 1), chdir_result)
             ex == execv(Arg(argv, 2), From(argv, 2), execv_result)
             cwd == IF chdir_result = -1 THEN InitialDirectory ELSE Arg(argv, 1)
         IN  IF execv_result = -1 THEN Exited(argv, 1, cwd, <<cd, ex>>)
             ELSE [pc |-> "replaced", argv |-> argv, cwd |-> cwd,
                   image |-> Arg(argv, 2), image_argv |-> From(argv, 2),
                   syscalls |-> <<cd, ex>>]

\* main: the process after it returned, or after execv replaced its image.
\* chdir_result and execv_result are what the system calls answer (execv
\* answers only -1; 0 stands for its not returning).
main(argc, argv, chdir_result, execv_result) ==
    IF argc < 3 THEN Exited(argv, 1, InitialDirectory, <<>>)
    ELSE LET cd == chdir(Arg(argv, 1), chdir_result)
             ex == execv(Arg(argv, 2), From(argv, 2), execv_result)
         IN  IF chdir_result = -1
             THEN Exited(argv, 1, InitialDirectory, <<cd>>)
             ELSE IF execv_result = -1
             THEN Exited(argv, 1, Arg(argv, 1), <<cd, ex>>)
             ELSE [pc |-> "replaced", argv |-> argv, cwd |-> Arg(argv, 1),
                   image |-> Arg(argv, 2), image_argv |-> From(argv, 2),
                   syscalls |-> <<cd, ex>>]

InitWrapper ==
    /\ strategy = "wrap"
    /\ sanitizer_death_callback = NULLFN
    /\ real_death_callback = NULLFN
    /\ environ = [ASAN_OPTIONS |-> Ptr(""), UBSAN_OPTIONS |-> Ptr("")]
    /\ registrations = <<>>
    /\ alive = TRUE
    /\ last = NoReport
    /\ prev = NoPrev
    /\ handler = Idle
    /\ wrapper \in { [pc |-> "start", argv |-> a] : a \in Argvs }

process_wrapper ==
    /\ wrapper.pc = "start"
    /\ \E chdir_result \in {0, -1}, execv_result \in {0, -1} :
           wrapper' = main(Len(wrapper.argv), wrapper.argv,
                           chdir_result, execv_result)
    /\ UNCHANGED <<strategy, sanitizer_death_callback, real_death_callback,
                   environ, registrations, alive, last, prev, handler>>

NextWrapper == process_wrapper

SpecWrapper == InitWrapper /\ [][NextWrapper]_vars

---------------------------------------------------------------------------
(* The vocabulary of the claims, stated independently of the C library
   model above. *)

BeginsWith(text, prefix) ==
    Len(text) >= Len(prefix) /\ SubSeq(text, 1, Len(prefix)) = prefix

Contains(text, part) ==
    \E i \in 1..Len(text) :
        /\ i + Len(part) - 1 <= Len(text)
        /\ SubSeq(text, i, i + Len(part) - 1) = part

AsanNoHaltFlags == {"halt_on_error=0", "halt_on_error=no", "halt_on_error=false"}
UbsanHaltFlags == {"halt_on_error=1", "halt_on_error=yes", "halt_on_error=true"}

\* The option variable is set and holds one of the flags.
HasFlag(option, flags) ==
    option # NULL /\ \E f \in flags : Contains(Deref(option), f)

Calls(trace) == SelectSeq(trace, LAMBDA e : e.op = "call")

ForwardOps == {"real___sanitizer_report_error_summary", "__sanitizer::Printf"}

RealOutput == IF strategy = "dlsym" THEN "real___sanitizer_report_error_summary"
              ELSE "__sanitizer::Printf"

NullCall(trace) ==
    \E i \in 1..Len(trace) : trace[i] = fault("call through NULL")

\* The latest step handled a report.  Handling leaves environ and the slot
\* unchanged, so both still hold the values the handler read.
Handled == last.entry # "none"

Registered == sanitizer_death_callback \in Callbacks

AsanReport == BeginsWith(last.summary, ASAN_SUMMARY_PREFIX)
UbsanReport == BeginsWith(last.summary, UBSAN_SUMMARY_PREFIX)
LeakReport == AsanReport /\ Contains(last.summary, "byte(s) leaked")

---------------------------------------------------------------------------
(* C1: a report with the AddressSanitizer prefix that contains
   "byte(s) leaked" never invokes the callback, whatever ASAN_OPTIONS holds
   and whatever callback is registered. *)
C1_LeakNeverInvokes ==
    (Handled /\ LeakReport) => Calls(last.trace) = <<>>

C1_Witness ==
    /\ Handled /\ LeakReport /\ Registered
    /\ last.entry = "hook"
    /\ HasFlag(environ.ASAN_OPTIONS, AsanNoHaltFlags)
    /\ Calls(last.trace) = <<>>

(* C2: a non-leak AddressSanitizer report, with a callback registered and
   ASAN_OPTIONS containing halt_on_error=0, =no or =false, invokes the
   registered callback exactly once. *)
C2_AsanContinueInvokesOnce ==
    (/\ Handled /\ AsanReport /\ ~LeakReport /\ Registered
     /\ HasFlag(environ.ASAN_OPTIONS, AsanNoHaltFlags))
        => Calls(last.trace) = <<call(sanitizer_death_callback)>>

C2_Witness ==
    /\ Handled /\ AsanReport /\ ~LeakReport /\ Registered
    /\ environ.ASAN_OPTIONS = Ptr("verbosity=1:halt_on_error=no")
    /\ Calls(last.trace) = <<call(sanitizer_death_callback)>>

(* C3: an UndefinedBehaviorSanitizer report, with a callback registered and
   UBSAN_OPTIONS holding none of halt_on_error=1, =yes, =true (or unset),
   invokes the registered callback exactly once. *)
C3_UbsanDefaultInvokesOnce ==
    (/\ Handled /\ UbsanReport /\ Registered
     /\ ~HasFlag(environ.UBSAN_OPTIONS, UbsanHaltFlags))
        => Calls(last.trace) = <<call(sanitizer_death_callback)>>

(* C4: an AddressSanitizer report, with ASAN_OPTIONS holding none of
   halt_on_error=0, =no, =false (or unset), never invokes the callback. *)
C4_AsanDefaultNeverInvokes ==
    (Handled /\ AsanReport /\ ~HasFlag(environ.ASAN_OPTIONS, AsanNoHaltFlags))
        => Calls(last.trace) = <<>>

(* C5: an UndefinedBehaviorSanitizer report, with UBSAN_OPTIONS containing
   halt_on_error=1, =yes or =true, never invokes the callback. *)
C5_UbsanHaltNeverInvokes ==
    (Handled /\ UbsanReport /\ HasFlag(environ.UBSAN_OPTIONS, UbsanHaltFlags))
        => Calls(last.trace) = <<>>

C5_Witness ==
    /\ Handled /\ UbsanReport /\ Registered
    /\ last.entry = "hook"
    /\ environ.UBSAN_OPTIONS = Ptr("print_stacktrace=1:halt_on_error=yes")
    /\ Calls(last.trace) = <<>>

(* C6: handling a non-leak AddressSanitizer report with ASAN_OPTIONS unset,
   or an UndefinedBehaviorSanitizer report with UBSAN_OPTIONS unset,
   completes without a fault and applies the family's default: no
   invocation for AddressSanitizer, one invocation of the registered
   callback for UndefinedBehaviorSanitizer.  Stated with a callback
   registered, so that the unset variable is the only possible cause of a
   fault. *)
C6_UnsetOptionsCompleteWithDefault ==
    /\ (/\ Handled /\ AsanReport /\ ~LeakReport /\ Registered
        /\ environ.ASAN_OPTIONS = NULL)
           => (~Faulted(last.trace) /\ Calls(last.trace) = <<>>)
    /\ (/\ Handled /\ UbsanReport /\ Registered
        /\ environ.UBSAN_OPTIONS = NULL)
           => (/\ ~Faulted(last.trace)
               /\ Calls(last.trace) = <<call(sanitizer_death_callback)>>)

(* C7: the latest registration wins: after registrations ending with
   callback B, a qualifying report (not a leak, its family's option
   variable set and resolving to Continue) invokes B once, and no report
   invokes any callback other than B. *)
Qualifying ==
    \/ /\ AsanReport /\ ~LeakReport
       /\ HasFlag(environ.ASAN_OPTIONS, AsanNoHaltFlags)
    \/ /\ UbsanReport
       /\ environ.UBSAN_OPTIONS # NULL
       /\ ~HasFlag(environ.UBSAN_OPTIONS, UbsanHaltFlags)

LatestRegistration == registrations[Len(registrations)]

C7_LatestRegistrationWins ==
    (Handled /\ registrations # <<>>) =>
        /\ \A i \in 1..Len(last.trace) :
               last.trace[i].op = "call" => last.trace[i].arg = LatestRegistration
        /\ (Qualifying /\ LatestRegistration \in Callbacks)
               => Calls(last.trace) = <<call(LatestRegistration)>>

C7_Witness ==
    /\ Handled /\ Qualifying
    /\ registrations = <<"cbA", "cbB">>
    /\ Calls(last.trace) = <<call("cbB")>>

(* C8: with no callback registered, handling any report invokes nothing
   and does not fail for want of a callback, through the hook of either
   strategy and through a direct call of the dispatcher. *)
C8_NoCallbackIsNoOp ==
    (Handled /\ sanitizer_death_callback = NULLFN) =>
        (Calls(last.trace) = <<>> /\ ~NullCall(last.trace))

(* C9: a report that begins with neither full prefix is Other and never
   invokes the callback, whatever the option strings. *)
C9_OtherNeverInvokes ==
    (Handled /\ ~AsanReport /\ ~UbsanReport) => Calls(last.trace) = <<>>

(* C10: every report coming through the hook is forwarded unmodified to
   the real error-summary output exactly once, before any invocation of
   the callback. *)
C10_ForwardedOnceFirst ==
    last.entry = "hook" =>
        /\ Len(last.trace) >= 1
        /\ last.trace[1] = forward(RealOutput, last.summary)
        /\ \A i \in 2..Len(last.trace) : last.trace[i].op \notin ForwardOps

C10_Witness ==
    /\ last.entry = "hook"
    /\ strategy = "wrap"
    /\ Len(last.trace) = 2
    /\ last.trace[1] = forward("__sanitizer::Printf", last.summary)
    /\ last.trace[2] = call(sanitizer_death_callback)

(* C11: the callback is invoked at most once per handled report, and only
   during the handling of a report whose family's resolved policy is
   Continue: an AddressSanitizer report with a non-halt flag in
   ASAN_OPTIONS, or an UndefinedBehaviorSanitizer report without a halt
   flag in UBSAN_OPTIONS. *)
ResolvedContinue ==
    \/ AsanReport /\ HasFlag(environ.ASAN_OPTIONS, AsanNoHaltFlags)
    \/ UbsanReport /\ ~HasFlag(environ.UBSAN_OPTIONS, UbsanHaltFlags)

C11_AtMostOnceAndOnlyUnderContinue ==
    Handled =>
        /\ Len(Calls(last.trace)) <= 1
        /\ Calls(last.trace) # <<>> => ResolvedContinue

(* C12: every registration stores the callback in the slot and hands the
   same callback to the real registration function: after any sequence of
   registrations the runtime and the slot hold the latest callback. *)
C12_RuntimeHoldsSlotValue ==
    /\ real_death_callback = sanitizer_death_callback
    /\ registrations # <<>> => sanitizer_death_callback = LatestRegistration

C12_Witness ==
    /\ registrations = <<"cbA", "cbB">>
    /\ sanitizer_death_callback = "cbB"
    /\ real_death_callback = "cbB"

(* C14: handling a report, whatever its text and the option strings and
   whether or not the callback is invoked, leaves the registered callback
   unchanged. *)
C14_HandlingKeepsTheSlot ==
    [][last'.entry # "none" =>
           sanitizer_death_callback' = sanitizer_death_callback]_vars

C14_Witness ==
    /\ Handled /\ Registered
    /\ Calls(last.trace) = <<call(sanitizer_death_callback)>>
    /\ sanitizer_death_callback = LatestRegistration

(* C15: the two option strings are independent: the runs possible for an
   AddressSanitizer report are the same whatever UBSAN_OPTIONS holds, and
   the runs possible for an UndefinedBehaviorSanitizer report are the same
   whatever ASAN_OPTIONS holds. *)
Runs(entry, error_summary, env, cb) ==
    IF entry = "direct"
    THEN sanitizer_death_callback_if_non_fatal_finding(error_summary, env, cb)
    ELSE IF strategy = "dlsym"
    THEN sanitizer_report_error_summary_dlsym(error_summary, env, cb)
    ELSE sanitizer_report_error_summary_wrap(error_summary, env, cb)

C15_OptionStringsIndependent ==
    Handled =>
        /\ AsanReport =>
               \A v \in UbsanOptionValues :
                   last.trace \in Runs(last.entry, last.summary,
                                       [environ EXCEPT !.UBSAN_OPTIONS = v],
                                       sanitizer_death_callback)
        /\ UbsanReport =>
               \A v \in AsanOptionValues :
                   last.trace \in Runs(last.entry, last.summary,
                                       [environ EXCEPT !.ASAN_OPTIONS = v],
                                       sanitizer_death_callback)

C15_Witness ==
    /\ Handled /\ AsanReport /\ ~LeakReport /\ Registered
    /\ environ.ASAN_OPTIONS = Ptr("halt_on_error=0")
    /\ environ.UBSAN_OPTIONS = Ptr("halt_on_error=1")
    /\ Calls(last.trace) = <<call(sanitizer_death_callback)>>

(* C13: in the link-time wrapping strategy, a report handler interleaved
   with registrations (one of which may store a null callback) never calls
   a null callback. *)
C13_NeverCallsNull == ~NullCall(handler.trace)

(* C16: the policy is resolved at each report and never cached: when the
   family's option string changed since an earlier report of the same
   family, the decision for the later report follows the value the variable
   holds now, however the earlier report was decided. *)
EarlierAsanReport == BeginsWith(prev.summary, ASAN_SUMMARY_PREFIX)
EarlierUbsanReport == BeginsWith(prev.summary, UBSAN_SUMMARY_PREFIX)

C16_PolicyResolvedPerReport ==
    (Handled /\ Registered) =>
        /\ (/\ AsanReport /\ ~LeakReport /\ EarlierAsanReport
            /\ environ.ASAN_OPTIONS # NULL)
               => Calls(last.trace) =
                      IF HasFlag(environ.ASAN_OPTIONS, AsanNoHaltFlags)
                      THEN <<call(sanitizer_death_callback)>> ELSE <<>>
        /\ (/\ UbsanReport /\ EarlierUbsanReport
            /\ environ.UBSAN_OPTIONS # NULL)
               => Calls(last.trace) =
                      IF HasFlag(environ.UBSAN_OPTIONS, UbsanHaltFlags)
                      THEN <<>> ELSE <<call(sanitizer_death_callback)>>

C16_Witness ==
    /\ Handled /\ Registered /\ AsanReport /\ EarlierAsanReport
    /\ prev.env.ASAN_OPTIONS = Ptr("halt_on_error=0")
    /\ Calls(prev.trace) # <<>>
    /\ environ.ASAN_OPTIONS = Ptr("detect_leaks=0:halt_on_error=1")
    /\ Calls(last.trace) = <<>>

(* C17: the process wrapper executes the target only after the working
   directory was changed: with fewer than two arguments it returns 1
   without changing directory or executing anything; when chdir to argv[1]
   fails it returns 1 without executing anything; when execv fails it
   returns 1; on success the target is argv[2], run in directory argv[1]
   with argv[2..] as its argument vector. *)
Made(callname) ==
    { i \in 1..Len(wrapper.syscalls) : wrapper.syscalls[i].call = callname }

C17_ExecutesOnlyAfterChdir ==
    wrapper.pc \in {"exited", "replaced"} =>
        LET argv == wrapper.argv
            argc == Len(argv)
        IN  /\ argc < 3 =>
                   /\ wrapper.pc = "exited" /\ wrapper.status = 1
                   /\ wrapper.syscalls = <<>>
                   /\ wrapper.cwd = InitialDirectory
            /\ \A i \in Made("execv") :
                   \E j \in Made("chdir") :
                       /\ j < i
                       /\ wrapper.syscalls[j].result = 0
                       /\ wrapper.syscalls[j].path = argv[2]
            /\ (\E j \in Made("chdir") : wrapper.syscalls[j].result = -1) =>
                   /\ wrapper.pc = "exited" /\ wrapper.status = 1
                   /\ Made("execv") = {}
            /\ (\E i \in Made("execv") : wrapper.syscalls[i].result = -1) =>
                   wrapper.pc = "exited" /\ wrapper.status = 1
            /\ wrapper.pc = "replaced" =>
                   /\ argc >= 3
                   /\ wrapper.cwd = argv[2]
                   /\ wrapper.image = argv[3]
                   /\ wrapper.image_argv = SubSeq(argv, 3, argc)

C17_Witness ==
    /\ wrapper.pc = "replaced"
    /\ wrapper.argv = <<"process_wrapper", "/work", "/bin/tool", "-v">>
    /\ wrapper.cwd = "/work"
    /\ wrapper.image = "/bin/tool"
    /\ wrapper.image_argv = <<"/bin/tool", "-v">>

=============================================================================
